---- MODULE Spec2Model ----
(***************************************************************************)
(* GitHistoryProvider (extensions/git/src/historyProvider.ts) as a state   *)
(* machine.                                                                *)
(*                                                                         *)
(* JavaScript values that may be undefined, or whose typeof the code       *)
(* tests, are tagged records: [t |-> "undefined"], [t |-> "string", v],    *)
(* [t |-> "number", v], [t |-> "object", ...].  Strings the code only      *)
(* interpolates into templates are TLA+ strings (\o concatenates them).    *)
(* Strings the code searches or slices (indexOf, includes, split,          *)
(* substring) are sequences of one-character strings, so that those        *)
(* operations are computed and not assumed.                                *)
(*                                                                         *)
(* The host invokes one query at a time: the queries share no field, each  *)
(* keeps its state in its own locals, so a second query in flight would    *)
(* only repeat the first.  Status refreshes and action-button changes      *)
(* interleave with the query in flight at each of its awaits.  Any pending *)
(* repository call may reject.                                             *)
(***************************************************************************)
EXTENDS Integers, Sequences, FiniteSets, TLC

\* ------------------------------------------------------------------ bounds
MaxRefreshes == 2       \* status refreshes with a named, committed HEAD
MaxCommits == 2         \* commits in one log answer
MaxIdLen == 4           \* characters of a history item id

\* --------------------------------------------------------- JavaScript values
Undefined == [t |-> "undefined"]
Str(s) == [t |-> "string", v |-> s]
Num(n) == [t |-> "number", v |-> n]

\* typeof x
TypeOf(x) == x.t

\* ToBoolean(x): undefined and the empty string are falsy, objects are truthy.
Truthy(x) ==
    CASE x.t = "undefined" -> FALSE
      [] x.t = "string" -> x.v # ""
      [] x.t = "number" -> x.v # 0
      [] OTHER -> TRUE

\* o?.name
OptName(o) == IF o.t = "undefined" THEN Undefined ELSE o.name

\* o?.commit
OptCommit(o) == IF o.t = "undefined" THEN Undefined ELSE o.commit

\* o?.id, and o.id of a value that has no such property
OptId(o) == IF o.t = "object" THEN o.id ELSE Undefined

\* `${x}` of a template literal
Template(x) == IF x.t = "string" THEN x.v ELSE ToString(x.v)

\* ------------------------------------------------- searched / sliced strings
Newline == <<"\n">>
DotDot == <<".", ".">>

\* s.substring(from, to), 0-based, to exclusive
Substring(s, from, to) == SubSeq(s, from + 1, to)

\* s.indexOf(sub): the 0-based index of the first occurrence, or -1
IndexOf(s, sub) ==
    LET at == {i \in 0..(Len(s) - Len(sub)) : Substring(s, i, i + Len(sub)) = sub}
    IN IF at = {} THEN -1 ELSE CHOOSE i \in at : \A j \in at : i <= j

\* s.includes(sub)
Includes(s, sub) == IndexOf(s, sub) # -1

\* s.split(sep), sep not empty: the pieces between the occurrences of sep,
\* found from left to right without overlap
RECURSIVE Split(_, _)
Split(s, sep) ==
    LET i == IndexOf(s, sep)
    IN IF i = -1
       THEN <<s>>
       ELSE <<Substring(s, 0, i)>> \o Split(Substring(s, i + Len(sep), Len(s)), sep)

\* All sequences over S of length 0..n
RECURSIVE SeqsUpTo(_, _)
SeqsUpTo(S, n) ==
    IF n = 0 THEN {<<>>}
    ELSE LET shorter == SeqsUpTo(S, n - 1)
         IN shorter \cup {Append(q, x) : q \in shorter, x \in S}

\* ------------------------------------------------------------ input domains
BranchNames == {"main", "dev"}
Remotes == {"origin"}
UpstreamNames == {"main"}

Upstreams ==
    {Undefined} \cup
    {[t |-> "object", remote |-> r, name |-> n] : r \in Remotes, n \in UpstreamNames}

Branch(name, commit, upstream) ==
    [t |-> "object", name |-> name, commit |-> commit, upstream |-> upstream]

\* repository.HEAD: Branch | undefined.  A named, committed HEAD for every
\* branch name and upstream; and HEAD absent, without a name, with the empty
\* name, without a commit, with the empty commit.
Heads ==
    {Branch(Str(b), Str("c0ffee"), u) : b \in BranchNames, u \in Upstreams}
    \cup {Undefined}
    \cup {Branch(Undefined, Str("c0ffee"), u) : u \in Upstreams \ {Undefined}}
    \cup {Branch(Str(""), Str("c0ffee"), Undefined)}
    \cup {Branch(Str(b), Undefined, u) : b \in {"main"}, u \in Upstreams \ {Undefined}}
    \cup {Branch(Str(b), Str(""), Undefined) : b \in {"dev"}}

\* SyncActionButton.button: SourceControlActionButton | undefined
Buttons == {Undefined, [t |-> "object", title |-> "sync"]}

\* Ref ids handed to the queries (only interpolated, so TLA+ strings)
Refs == {"refs/heads/main", "refs/remotes/origin/main"}

\* historyItemGroupId of provideHistoryItems
GroupIds == {"refs/heads/main"}

\* options.limit: number | { id?: string } | undefined
Limits ==
    {Undefined, Num(5), [t |-> "object", id |-> Undefined], [t |-> "object", id |-> Num(7)]}
    \cup {[t |-> "object", id |-> Str(r)] : r \in Refs}

\* Commit records of repository.log
Commits ==
    {[hash |-> "h1", parents |-> <<"h0">>, message |-> <<"a", "\n", "b", "\n", "c">>,
      authorName |-> "ann", authorDate |-> [t |-> "object", time |-> 1]],
     [hash |-> "h2", parents |-> <<"h1", "h0">>, message |-> <<"a", "b">>,
      authorName |-> "bob", authorDate |-> Undefined],
     [hash |-> "h3", parents |-> <<>>, message |-> <<"\n", "b">>,
      authorName |-> "ann", authorDate |-> [t |-> "object", time |-> 2]]}

\* Answers of repository.log
Logs == SeqsUpTo(Commits, MaxCommits)

\* Answers of repository.diffBetweenShortStat
ShortStats == {"", " 1 file changed, 2 insertions(+)"}

\* History item ids handed to provideHistoryItemChanges
IdAlphabet == {"a", "."}
ItemIds == SeqsUpTo(IdAlphabet, MaxIdLen)

\* Answers of repository.diffBetween: Change records
Uri(path) == [path |-> path, query |-> <<>>]
Diffs ==
    {<<>>,
     <<[uri |-> Uri("new.ts"), originalUri |-> Uri("old.ts"), renameUri |-> Uri("new.ts")]>>}

\* Answers of repository.getDefaultBranch: Branch records
DefaultBranches ==
    {[t |-> "object", name |-> n] : n \in {Undefined, Str(""), Str("refs/heads/main")}}

\* Answers of repository.getMergeBase
MergeBases == {"", "abc"}

\* Answers of repository.getCommitCount
CommitCounts == {[ahead |-> 1, behind |-> 2]}

\* refId2 of resolveHistoryItemGroupCommonAncestor: string | undefined
RefId2s == {Undefined, Str("")} \cup {Str(r) : r \in Refs}

VARIABLES
    HEAD,                       \* repository.HEAD
    actionButton,               \* _actionButton
    currentHistoryItemGroup,    \* _currentHistoryItemGroup
    firedCurrentHistoryItemGroup, \* fires of _onDidChangeCurrentHistoryItemGroup
    heard,                      \* currentHistoryItemGroup as a listener read it at the last fire
    namedRefreshes,             \* status refreshes so far that had a named, committed HEAD
    pc,                         \* where the query in flight is suspended
    call,                       \* the query in flight: its name and parameters
    trace,                      \* its repository calls and their answers, in order
    outcome                     \* how its promise settled

providerVars == <<HEAD, actionButton, currentHistoryItemGroup,
                  firedCurrentHistoryItemGroup, heard, namedRefreshes>>
queryVars == <<pc, call, trace, outcome>>
vars == <<providerVars, queryVars>>

\* ------------------------------------------------------------------ setters

\* Faulty variant: a setter that skips the notification when the value is the same
SetCurrentHistoryItemGroupIfChanged(value) ==
    IF value = currentHistoryItemGroup
    THEN UNCHANGED <<currentHistoryItemGroup, firedCurrentHistoryItemGroup, heard>>
    ELSE /\ currentHistoryItemGroup' = value
         /\ firedCurrentHistoryItemGroup' = firedCurrentHistoryItemGroup + 1
         /\ heard' = currentHistoryItemGroup'

\* set currentHistoryItemGroup(value): store, then fire; a listener reads the
\* stored field.
SetCurrentHistoryItemGroup(value) ==
    /\ currentHistoryItemGroup' = value
    /\ firedCurrentHistoryItemGroup' = firedCurrentHistoryItemGroup + 1
    /\ heard' = currentHistoryItemGroup'

\* set actionButton(button): store, then fire.  The listeners of
\* onDidChangeActionButton are the host's; firing changes nothing here.
SetActionButton(button) == actionButton' = button

\* ------------------------------------------------------- onDidRunGitStatus

\* Faulty variant: the upstream's id built like its label, without the ref path
HistoryItemGroupUpstreamLabelAsId(head) ==
    [id |-> "refs/heads/" \o head.name.v,
     label |-> head.name.v,
     upstream |->
        IF Truthy(head.upstream)
        THEN [id |-> head.upstream.remote \o "/" \o head.upstream.name,
              label |-> head.upstream.remote \o "/" \o head.upstream.name]
        ELSE Undefined]

\* The object literal of onDidRunGitStatus, for a HEAD with a name.
HistoryItemGroupOf(head) ==
    [id |-> "refs/heads/" \o head.name.v,
     label |-> head.name.v,
     upstream |->
        IF Truthy(head.upstream)
        THEN [id |-> "refs/remotes/" \o head.upstream.remote \o "/" \o head.upstream.name,
              label |-> head.upstream.remote \o "/" \o head.upstream.name]
        ELSE Undefined]

\* Faulty variant: a guard that forgets the commit
ReturnsEarlyNameOnly(head) == ~Truthy(OptName(head))

\* The guard of onDidRunGitStatus: !HEAD?.name || !HEAD?.commit
ReturnsEarly(head) == ~Truthy(OptName(head)) \/ ~Truthy(OptCommit(head))

\* What the repository reported, whatever the handler makes of it: HEAD is
\* there and has a name and a commit, neither of them empty.
NamedAndCommitted(h) ==
    /\ h.t = "object"
    /\ h.name.t = "string" /\ h.name.v # ""
    /\ h.commit.t = "string" /\ h.commit.v # ""

\* The repository finished a status run that left HEAD = h, and notifies.
\* The handler has no await, so it runs to its end in the same step.
OnDidRunGitStatus(h) ==
    /\ HEAD' = h
    /\ IF NamedAndCommitted(h)
       THEN /\ namedRefreshes < MaxRefreshes
            /\ namedRefreshes' = namedRefreshes + 1
       ELSE UNCHANGED namedRefreshes
    /\ IF ReturnsEarly(h)
       THEN UNCHANGED <<currentHistoryItemGroup, firedCurrentHistoryItemGroup, heard>>
       ELSE SetCurrentHistoryItemGroup(HistoryItemGroupOf(h))
    /\ UNCHANGED <<actionButton, queryVars>>

\* actionButton.onDidChange(() => this.actionButton = actionButton.button)
OnDidChangeSyncActionButton(b) ==
    /\ SetActionButton(b)
    /\ UNCHANGED <<HEAD, currentHistoryItemGroup, firedCurrentHistoryItemGroup,
                   heard, namedRefreshes, queryVars>>

\* ------------------------------------------------------ repository calls

Called(fn, args) == [ev |-> "call", fn |-> fn, val |-> args]
Returned(fn, result) == [ev |-> "return", fn |-> fn, val |-> result]
Rejected(fn) == [ev |-> "reject", fn |-> fn, val |-> "backend failure"]

\* The functions called / answered so far by the query in flight
CalledFns(tr) == {tr[i].fn : i \in {j \in 1..Len(tr) : tr[j].ev = "call"}}
ReturnedFns(tr) == {tr[i].fn : i \in {j \in 1..Len(tr) : tr[j].ev = "return"}}
Pending(tr) ==
    CalledFns(tr) \ {tr[i].fn : i \in {j \in 1..Len(tr) : tr[j].ev # "call"}}

\* The value a call of fn returned; a variable not assigned yet is undefined
ResultOf(tr, fn) ==
    IF fn \in ReturnedFns(tr)
    THEN tr[CHOOSE i \in 1..Len(tr) : tr[i].ev = "return" /\ tr[i].fn = fn].val
    ELSE Undefined

Running == [t |-> "pending"]
Resolved(value) == [t |-> "resolved", v |-> value]
Threw(message) == [t |-> "rejected", v |-> message]

\* A query may be invoked when none is in flight.
NoQueryInFlight == pc \in {"idle", "settled"}

\* ------------------------------------------------------ provideHistoryItems

\* Faulty variant: a test for a missing id instead of a test for a string id
UnsupportedOptionsMissingId(options) ==
    \/ TypeOf(options.limit) = "number"
    \/ TypeOf(OptId(options.limit)) = "undefined"

\* The two tests that throw new Error('Unsupported options.')
UnsupportedOptions(options) ==
    \/ TypeOf(options.limit) = "number"
    \/ TypeOf(OptId(options.limit)) # "string"

\* getSummaryHistoryItem's result, for the short stat the repository returned
SummaryHistoryItem(ref1, ref2, diffShortStat) ==
    [id |-> ref1 \o ".." \o ref2, parentIds |-> <<>>, icon |-> "files",
     label |-> "Changes", description |-> diffShortStat]

\* Faulty variant: the label is the whole message
CommitHistoryItemWholeMessage(commit) ==
    [id |-> commit.hash,
     parentIds |-> commit.parents,
     label |-> commit.message,
     description |-> commit.authorName,
     icon |-> "account",
     timestamp |-> IF commit.authorDate.t = "undefined"
                   THEN Undefined
                   ELSE Num(commit.authorDate.time)]

\* The callback of commits.map
CommitHistoryItem(commit) ==
    LET newLineIndex == IndexOf(commit.message, Newline)
        subject == IF newLineIndex # -1
                   THEN Substring(commit.message, 0, newLineIndex)
                   ELSE commit.message
    IN [id |-> commit.hash,
        parentIds |-> commit.parents,
        label |-> subject,
        description |-> commit.authorName,
        icon |-> "account",
        timestamp |-> IF commit.authorDate.t = "undefined"
                      THEN Undefined
                      ELSE Num(commit.authorDate.time)]

\* Faulty variant: the summary is prepended whatever the log holds
HistoryItemsAlwaysSummary(commits, summary) ==
    <<summary>> \o [i \in 1..Len(commits) |-> CommitHistoryItem(commits[i])]

\* historyItems after the push
HistoryItems(commits, summary) ==
    (IF Len(commits) = 0 THEN <<>> ELSE <<summary>>)
    \o [i \in 1..Len(commits) |-> CommitHistoryItem(commits[i])]

\* The calls issued by the argument list of Promise.all, in order; the second
\* is issued by getSummaryHistoryItem up to its await.
HistoryItemsCalls(optionsRef, historyItemGroupId) ==
    <<Called("log", [range |-> optionsRef \o ".." \o historyItemGroupId,
                     sortByAuthorDate |-> TRUE]),
      Called("diffBetweenShortStat", <<optionsRef, historyItemGroupId>>)>>

\* Faulty variant: the summary promise is not awaited
AwaitedLogOnly == {"log"}

\* Promise.all resumes the query once each of these has returned
AwaitedByAll == {"log", "diffBetweenShortStat"}

ProvideHistoryItems(historyItemGroupId, options) ==
    /\ NoQueryInFlight
    /\ call' = [fn |-> "provideHistoryItems",
                historyItemGroupId |-> historyItemGroupId, options |-> options]
    /\ IF UnsupportedOptions(options)
       THEN /\ trace' = <<>>
            /\ outcome' = Threw("Unsupported options.")
            /\ pc' = "settled"
       ELSE /\ trace' = HistoryItemsCalls(Template(options.limit.id), historyItemGroupId)
            /\ outcome' = Running
            /\ pc' = "Promise.all"
    /\ UNCHANGED providerVars

\* What the code after `await Promise.all` does once tr holds both answers
AfterPromiseAll(tr) ==
    LET optionsRef == Template(call.options.limit.id)
        commits == ResultOf(tr, "log")
        summary == SummaryHistoryItem(optionsRef, call.historyItemGroupId,
                                      ResultOf(tr, "diffBetweenShortStat"))
    IN Resolved(HistoryItems(commits, summary))

\* One of the two pending calls returns; the query resumes when both have.
PromiseAllReturns(fn, result) ==
    /\ pc = "Promise.all"
    /\ fn \in Pending(trace)
    /\ trace' = Append(trace, Returned(fn, result))
    /\ IF AwaitedByAll \subseteq ReturnedFns(trace')
       THEN /\ outcome' = AfterPromiseAll(trace')
            /\ pc' = "settled"
       ELSE UNCHANGED <<outcome, pc>>
    /\ UNCHANGED <<providerVars, call>>

LogReturns(commits) == PromiseAllReturns("log", commits)

DiffBetweenShortStatReturns(stat) == PromiseAllReturns("diffBetweenShortStat", stat)

\* ------------------------------------------------ provideHistoryItemChanges

\* Faulty variant: the range is split at single dots
ChangeRefsSplitAtDot(historyItemId) ==
    IF Includes(historyItemId, DotDot)
    THEN LET parts == Split(historyItemId, <<".">>) IN <<parts[1], parts[2]>>
    ELSE <<historyItemId \o <<"^">>, historyItemId>>

\* [ref1, ref2] of provideHistoryItemChanges
ChangeRefs(historyItemId) ==
    IF Includes(historyItemId, DotDot)
    THEN LET parts == Split(historyItemId, DotDot) IN <<parts[1], parts[2]>>
    ELSE <<historyItemId \o <<"^">>, historyItemId>>

\* toGitUri(uri, ref) of ./uri
ToGitUri(uri, ref) == [scheme |-> "git", path |-> uri.path, ref |-> ref]

\* The callback of changes.map
HistoryItemChange(change, historyItemId, ref1, ref2) ==
    [uri |-> [change.uri EXCEPT !.query = <<"r", "e", "f", "=">> \o historyItemId],
     originalUri |-> ToGitUri(change.originalUri, ref1),
     modifiedUri |-> ToGitUri(change.originalUri, ref2),
     renameUri |-> change.renameUri]

ProvideHistoryItemChanges(historyItemId) ==
    /\ NoQueryInFlight
    /\ call' = [fn |-> "provideHistoryItemChanges", historyItemId |-> historyItemId]
    /\ trace' = <<Called("diffBetween", ChangeRefs(historyItemId))>>
    /\ outcome' = Running
    /\ pc' = "diffBetween"
    /\ UNCHANGED providerVars

DiffBetweenReturns(changes) ==
    /\ pc = "diffBetween"
    /\ trace' = Append(trace, Returned("diffBetween", changes))
    /\ LET refs == ChangeRefs(call.historyItemId)
       IN outcome' = Resolved([i \in 1..Len(changes) |->
               HistoryItemChange(changes[i], call.historyItemId, refs[1], refs[2])])
    /\ pc' = "settled"
    /\ UNCHANGED <<providerVars, call>>

\* ------------------------------------- resolveHistoryItemGroupCommonAncestor

\* x ?? y, for a y that is a string
Coalesce(x, y) == IF x.t = "undefined" THEN Str(y) ELSE x

\* The function from `if (refId2 === '')` on, refId2 being a string by then
\* and tr the repository calls so far
FromRefId2(tr, refId1, refId2) ==
    IF refId2.v = ""
    THEN /\ trace' = tr
         /\ outcome' = Resolved(Undefined)
         /\ pc' = "settled"
    ELSE /\ trace' = Append(tr, Called("getMergeBase", <<refId1, refId2.v>>))
         /\ outcome' = Running
         /\ pc' = "getMergeBase"

ResolveHistoryItemGroupCommonAncestor(refId1, refId2) ==
    /\ NoQueryInFlight
    /\ call' = [fn |-> "resolveHistoryItemGroupCommonAncestor",
                refId1 |-> refId1, refId2 |-> refId2]
    /\ IF refId2.t = "undefined"
       THEN /\ trace' = <<Called("getDefaultBranch", <<>>)>>
            /\ outcome' = Running
            /\ pc' = "getDefaultBranch"
       ELSE FromRefId2(<<>>, refId1, refId2)
    /\ UNCHANGED providerVars

\* refId2 = (await getDefaultBranch()).name ?? '', and on
GetDefaultBranchReturns(branch) ==
    /\ pc = "getDefaultBranch"
    /\ call' = [call EXCEPT !.refId2 = Coalesce(branch.name, "")]
    /\ FromRefId2(Append(trace, Returned("getDefaultBranch", branch)),
                  call.refId1, call'.refId2)
    /\ UNCHANGED providerVars

\* Faulty variant: a test for a missing ancestor instead of the empty one
NoCommonAncestorUndefined(ancestor) == ancestor = "undefined"

\* ancestor === ''
NoCommonAncestor(ancestor) == ancestor = ""

GetMergeBaseReturns(ancestor) ==
    /\ pc = "getMergeBase"
    /\ IF NoCommonAncestor(ancestor)
       THEN /\ trace' = Append(trace, Returned("getMergeBase", ancestor))
            /\ outcome' = Resolved(Undefined)
            /\ pc' = "settled"
       ELSE /\ trace' = trace \o <<Returned("getMergeBase", ancestor),
                                   Called("getCommitCount",
                                          call.refId1 \o "..." \o call.refId2.v)>>
            /\ outcome' = Running
            /\ pc' = "getCommitCount"
    /\ UNCHANGED <<providerVars, call>>

GetCommitCountReturns(commitCount) ==
    /\ pc = "getCommitCount"
    /\ trace' = Append(trace, Returned("getCommitCount", commitCount))
    /\ outcome' = Resolved([id |-> ResultOf(trace, "getMergeBase"),
                            ahead |-> commitCount.ahead,
                            behind |-> commitCount.behind])
    /\ pc' = "settled"
    /\ UNCHANGED <<providerVars, call>>

\* ------------------------------------------------------- repository failure

\* A pending repository call rejects.  No query catches: its promise rejects
\* with the same error (Promise.all rejects on the first rejection of either).
RepositoryRejects(fn) ==
    /\ pc \notin {"idle", "settled"}
    /\ fn \in Pending(trace)
    /\ trace' = Append(trace, Rejected(fn))
    /\ outcome' = Threw("backend failure")
    /\ pc' = "settled"
    /\ UNCHANGED <<providerVars, call>>

\* ------------------------------------------------------------ specification

\* After the constructor: the button of the new SyncActionButton was adopted,
\* the group was never set, no query was invoked.
Init ==
    /\ HEAD \in Heads
    /\ actionButton \in Buttons
    /\ currentHistoryItemGroup = Undefined
    /\ firedCurrentHistoryItemGroup = 0
    /\ heard = Undefined
    /\ namedRefreshes = 0
    /\ pc = "idle"
    /\ call = [fn |-> "none"]
    /\ trace = <<>>
    /\ outcome = Running

RepositoryFns ==
    {"log", "diffBetweenShortStat", "diffBetween", "getDefaultBranch",
     "getMergeBase", "getCommitCount"}

Next ==
    \/ \E h \in Heads : OnDidRunGitStatus(h)
    \/ \E b \in Buttons : OnDidChangeSyncActionButton(b)
    \/ \E g \in GroupIds, l \in Limits :
           ProvideHistoryItems(g, [t |-> "object", limit |-> l])
    \/ \E commits \in Logs : LogReturns(commits)
    \/ \E stat \in ShortStats : DiffBetweenShortStatReturns(stat)
    \/ \E id \in ItemIds : ProvideHistoryItemChanges(id)
    \/ \E changes \in Diffs : DiffBetweenReturns(changes)
    \/ \E r1 \in Refs, r2 \in RefId2s : ResolveHistoryItemGroupCommonAncestor(r1, r2)
    \/ \E branch \in DefaultBranches : GetDefaultBranchReturns(branch)
    \/ \E ancestor \in MergeBases : GetMergeBaseReturns(ancestor)
    \/ \E commitCount \in CommitCounts : GetCommitCountReturns(commitCount)
    \/ \E fn \in RepositoryFns : RepositoryRejects(fn)

Spec == Init /\ [][Next]_vars

\* ------------------------------------------------------------------ claims

\* The group the handler is to build for branch B with upstream (R, N)
GroupWithUpstream(B, R, N) ==
    [id |-> "refs/heads/" \o B, label |-> B,
     upstream |-> [id |-> "refs/remotes/" \o R \o "/" \o N, label |-> R \o "/" \o N]]

\* The group the handler is to build for branch B without upstream
GroupWithoutUpstream(B) ==
    [id |-> "refs/heads/" \o B, label |-> B, upstream |-> Undefined]

UpstreamRef(R, N) == [t |-> "object", remote |-> R, name |-> N]

\* C1: every status refresh that reports HEAD with name B, a commit and
\* upstream (R, N) leaves currentHistoryItemGroup = {id: refs/heads/B, label: B,
\* upstream: {id: refs/remotes/R/N, label: R/N}}, and with no upstream the same
\* id and label and no upstream, whatever the group was before the refresh.
C1_GroupRebuiltOnRefresh ==
    [][\A h \in Heads :
         (NamedAndCommitted(h) /\ OnDidRunGitStatus(h)) =>
            \A B \in BranchNames :
               /\ \A R \in Remotes, N \in UpstreamNames :
                     h = Branch(Str(B), h.commit, UpstreamRef(R, N))
                        => currentHistoryItemGroup' = GroupWithUpstream(B, R, N)
               /\ h = Branch(Str(B), h.commit, Undefined)
                     => currentHistoryItemGroup' = GroupWithoutUpstream(B)]_vars

\* A refresh reported dev without upstream after an earlier named refresh, and
\* the group is that of dev, without upstream.
C1_Witness ==
    /\ namedRefreshes = 2
    /\ HEAD = Branch(Str("dev"), Str("c0ffee"), Undefined)
    /\ currentHistoryItemGroup = GroupWithoutUpstream("dev")

ItemsReturned ==
    /\ pc = "settled"
    /\ call.fn = "provideHistoryItems"
    /\ outcome.t = "resolved"

\* The id of the summary item of the query in flight: "R..G"
RangeId == call.options.limit.id.v \o ".." \o call.historyItemGroupId

IsSummaryItem(item) == item.icon = "files" /\ item.id = RangeId

\* C3: the list provideHistoryItems returns holds the summary item if and only
\* if the log answer is not empty, and is empty when the log answer is,
\* whatever the short stat was.
C3_SummaryIffCommits ==
    ItemsReturned =>
        LET list == outcome.v
            commits == ResultOf(trace, "log")
        IN /\ (\E i \in 1..Len(list) : IsSummaryItem(list[i])) <=> Len(commits) > 0
           /\ Len(commits) = 0 => list = <<>>

\* The log was empty, the short stat was not, and the list is empty.
C3_Witness ==
    /\ ItemsReturned
    /\ ResultOf(trace, "log") = <<>>
    /\ ResultOf(trace, "diffBetweenShortStat") # ""
    /\ outcome.v = <<>>

\* label is msg up to its first newline, or msg when it has none
IsFirstLine(label, msg) ==
    /\ Len(label) <= Len(msg)
    /\ \A k \in 1..Len(label) : label[k] = msg[k] /\ label[k] # "\n"
    /\ Len(label) = Len(msg) \/ msg[Len(label) + 1] = "\n"

\* C4: with N > 0 commits in the log answer the list has N + 1 items, item 0
\* is the summary with id "R..G" and no parents, and item i has the hash, the
\* parents and the first line of the message of the i-th commit.
C4_SummaryThenCommits ==
    ItemsReturned =>
        LET list == outcome.v
            commits == ResultOf(trace, "log")
            N == Len(commits)
        IN N > 0 =>
             /\ Len(list) = N + 1
             /\ IsSummaryItem(list[1]) /\ list[1].parentIds = <<>>
             /\ \A i \in 1..N :
                   /\ list[i + 1].id = commits[i].hash
                   /\ list[i + 1].parentIds = commits[i].parents
                   /\ IsFirstLine(list[i + 1].label, commits[i].message)

\* Two commits, the first with a message of three lines, the second with a
\* message of one line, and a list of three items.
C4_Witness ==
    /\ ItemsReturned
    /\ Len(ResultOf(trace, "log")) = 2
    /\ ResultOf(trace, "log")[1].message = <<"a", "\n", "b", "\n", "c">>
    /\ ResultOf(trace, "log")[2].message = <<"a", "b">>
    /\ Len(outcome.v) = 3
    /\ outcome.v[2].label = <<"a">>
    /\ outcome.v[3].label = <<"a", "b">>

\* A limit that is a number, missing, or an object whose id is no string
NotAReferenceLimit(limit) ==
    \/ limit.t = "number"
    \/ limit.t = "undefined"
    \/ limit.t = "object" /\ limit.id.t # "string"

\* C5: provideHistoryItems with a numeric limit, no limit or a limit whose id
\* is not a string fails with "Unsupported options.", has called nothing of the
\* repository, and changed neither currentHistoryItemGroup nor actionButton.
C5_UnsupportedOptions ==
    /\ [](call.fn = "provideHistoryItems" /\ NotAReferenceLimit(call.options.limit)
            => /\ pc = "settled"
               /\ outcome.t = "rejected" /\ outcome.v = "Unsupported options."
               /\ trace = <<>>)
    /\ [][\A g \in GroupIds, l \in Limits :
            (NotAReferenceLimit(l) /\ ProvideHistoryItems(g, [t |-> "object", limit |-> l])) =>
               /\ currentHistoryItemGroup' = currentHistoryItemGroup
               /\ actionButton' = actionButton]_vars

\* The query was refused for a numeric limit while a group was set.
C5_Witness ==
    /\ call.fn = "provideHistoryItems"
    /\ call.options.limit = Num(5)
    /\ outcome.t = "rejected"
    /\ trace = <<>>
    /\ currentHistoryItemGroup = GroupWithoutUpstream("main")

\* The places (1-based) where ".." starts in id
DotDotAt(id) == {i \in 1..(Len(id) - 1) : id[i] = "." /\ id[i + 1] = "."}

\* id up to its first "..", or all of it
UpToDotDot(id) ==
    IF DotDotAt(id) = {} THEN id
    ELSE SubSeq(id, 1, (CHOOSE i \in DotDotAt(id) : \A j \in DotDotAt(id) : i <= j) - 1)

\* id after its first ".."
AfterDotDot(id) == SubSeq(id, Len(UpToDotDot(id)) + 3, Len(id))

\* Ref names that hold no dot
PlainRefs == SeqsUpTo(IdAlphabet \ {"."}, MaxIdLen) \ {<<>>}

\* C6: provideHistoryItemChanges(itemId) calls diffBetween once.  Without ".."
\* in itemId the refs are itemId^ and itemId.  With "..", the first ref is
\* itemId up to its first ".." and the second is what follows, up to the next
\* ".." if there is one; so for itemId = a..b, a and b without dots, the refs
\* are a and b.
C6_DiffBetweenRefs ==
    call.fn = "provideHistoryItemChanges" =>
        LET id == call.historyItemId
            calls == {i \in 1..Len(trace) : trace[i].ev = "call"}
        IN /\ calls = {1}
           /\ trace[1].fn = "diffBetween"
           /\ DotDotAt(id) = {} => trace[1].val = <<id \o <<"^">>, id>>
           /\ DotDotAt(id) # {} =>
                trace[1].val = <<UpToDotDot(id), UpToDotDot(AfterDotDot(id))>>
           /\ \A a \in PlainRefs, b \in PlainRefs :
                id = a \o DotDot \o b => trace[1].val = <<a, b>>

\* The changes of the range a..a were asked for and returned.
C6_Witness ==
    /\ call.fn = "provideHistoryItemChanges"
    /\ call.historyItemId = <<"a", ".", ".", "a">>
    /\ trace[1] = Called("diffBetween", <<(<<"a">>), (<<"a">>)>>)
    /\ pc = "settled"
    /\ outcome.t = "resolved"

\* resolveHistoryItemGroupCommonAncestor was invoked without refId2 and no
\* default branch came of getDefaultBranch: it rejected, or returned a branch
\* without a name
NoDefaultBranch ==
    /\ call.fn = "resolveHistoryItemGroupCommonAncestor"
    /\ Len(trace) >= 2
    /\ trace[1].fn = "getDefaultBranch"
    /\ trace[2].fn = "getDefaultBranch"
    /\ \/ trace[2].ev = "reject"
       \/ trace[2].ev = "return" /\ ~Truthy(trace[2].val.name)

\* C7: resolveHistoryItemGroupCommonAncestor(ref1, undefined), when
\* getDefaultBranch yields no branch name or fails, returns undefined (no
\* error) and calls neither getMergeBase nor getCommitCount.
C7_NoDefaultBranchReturnsNothing ==
    NoDefaultBranch =>
        /\ pc = "settled"
        /\ outcome.t = "resolved" /\ outcome.v = Undefined
        /\ CalledFns(trace) \cap {"getMergeBase", "getCommitCount"} = {}

\* The places of the events of kind ev of function fn in the trace
EventsAt(ev, fn) == {i \in 1..Len(trace) : trace[i].ev = ev /\ trace[i].fn = fn}

\* C8: in resolveHistoryItemGroupCommonAncestor(ref1, ref2) every call of
\* getCommitCount comes after a call of getMergeBase(ref1, ref2); after
\* getMergeBase returned "" the query has returned undefined and getCommitCount
\* was not called; after it returned an ancestor, getCommitCount was called
\* once, for ref1...ref2, and what the query returns is (ancestor, ahead,
\* behind) of the two answers.
C8_MergeBaseThenCommitCount ==
    call.fn = "resolveHistoryItemGroupCommonAncestor" =>
        LET ref1 == call.refId1
            ref2 == call.refId2
            given == EventsAt("call", "getDefaultBranch") = {}
        IN /\ (given /\ ref2.v # "") =>
                 trace[1] = Called("getMergeBase", <<ref1, ref2.v>>)
           /\ \A i \in EventsAt("call", "getCommitCount") :
                 \E j \in EventsAt("call", "getMergeBase") :
                    j < i /\ trace[j].val = <<ref1, ref2.v>>
           /\ \A j \in EventsAt("return", "getMergeBase") :
                 IF trace[j].val = ""
                 THEN /\ pc = "settled"
                      /\ outcome.t = "resolved" /\ outcome.v = Undefined
                      /\ EventsAt("call", "getCommitCount") = {}
                 ELSE /\ Cardinality(EventsAt("call", "getCommitCount")) = 1
                      /\ trace[j + 1] = Called("getCommitCount", ref1 \o "..." \o ref2.v)
                      /\ \A k \in EventsAt("return", "getCommitCount") :
                            /\ pc = "settled"
                            /\ outcome.t = "resolved"
                            /\ outcome.v = [id |-> trace[j].val,
                                            ahead |-> trace[k].val.ahead,
                                            behind |-> trace[k].val.behind]

\* Both refs were given, the merge base was found and the counts returned.
C8_Witness ==
    /\ call.fn = "resolveHistoryItemGroupCommonAncestor"
    /\ Len(trace) = 4
    /\ trace[1] = Called("getMergeBase", <<"refs/heads/main", "refs/remotes/origin/main">>)
    /\ trace[2] = Returned("getMergeBase", "abc")
    /\ trace[3].fn = "getCommitCount"
    /\ outcome = Resolved([id |-> "abc", ahead |-> 1, behind |-> 2])

\* C9: provideHistoryItems with a reference limit issues the log fetch and the
\* short-stat fetch before either completes, returns its list only after both
\* have returned, the list being that of the two answers whichever came
\* first; and a status refresh changes nothing of the query in flight.
C9_BothFetchesPending ==
    /\ [](call.fn = "provideHistoryItems" /\ ~NotAReferenceLimit(call.options.limit)
            => /\ Len(trace) >= 2
               /\ trace[1].ev = "call" /\ trace[1].fn = "log"
               /\ trace[2].ev = "call" /\ trace[2].fn = "diffBetweenShortStat"
               /\ outcome.t = "resolved" =>
                    /\ EventsAt("return", "log") # {}
                    /\ EventsAt("return", "diffBetweenShortStat") # {}
                    /\ \A i \in EventsAt("return", "log"),
                          j \in EventsAt("return", "diffBetweenShortStat") :
                          outcome.v =
                             HistoryItems(trace[i].val,
                                SummaryHistoryItem(call.options.limit.id.v,
                                    call.historyItemGroupId, trace[j].val)))
    /\ [][(\E h \in Heads : OnDidRunGitStatus(h)) => UNCHANGED queryVars]_vars

\* The short stat returned first, the log second, status was refreshed, and
\* the list is there.
C9_Witness ==
    /\ ItemsReturned
    /\ Len(trace) = 4
    /\ trace[3].fn = "diffBetweenShortStat"
    /\ trace[4].fn = "log"
    /\ Len(outcome.v) = 3
    /\ namedRefreshes = 2

\* C10: the change notifications of currentHistoryItemGroup are as many as the
\* refreshes that reported a named, committed HEAD; a step that notifies is
\* such a refresh and notifies once, with the new value stored, also when the
\* group it stores equals the one before; no other refresh and no query
\* notifies.
C10_OneNotificationPerNamedRefresh ==
    /\ [](/\ firedCurrentHistoryItemGroup = namedRefreshes
          /\ heard = currentHistoryItemGroup)
    /\ [][/\ firedCurrentHistoryItemGroup' # firedCurrentHistoryItemGroup
             => /\ \E h \in Heads : NamedAndCommitted(h) /\ OnDidRunGitStatus(h)
                /\ firedCurrentHistoryItemGroup' = firedCurrentHistoryItemGroup + 1
          /\ \A h \in Heads :
                (NamedAndCommitted(h) /\ OnDidRunGitStatus(h))
                   => firedCurrentHistoryItemGroup' = firedCurrentHistoryItemGroup + 1]_vars

\* Two named refreshes and a query have run: two notifications.
C10_Witness ==
    /\ namedRefreshes = 2
    /\ firedCurrentHistoryItemGroup = 2
    /\ heard = GroupWithUpstream("main", "origin", "main")
    /\ pc = "settled"

====
